---- MODULE Spec2Model ----
(***************************************************************************)
(* A model of hsl-live-proxy: the DataPoint functions of src/datapoint.js  *)
(* and the proxy of src/unnamed/part_000 (the connection to the HSL feed,  *)
(* the WebSocket clients, the batch handler and the broadcast).            *)
(*                                                                         *)
(* JavaScript values are encoded so that TLC can compare them:             *)
(*   - a string is a sequence of one-character strings, <<"1","0","6">>;   *)
(*     the carriage return and the line feed are the characters "CR", "LF" *)
(*   - `undefined` where a string may stand is the sequence Undefined,     *)
(*     which holds a token that is no character of any input               *)
(*   - a number is <<"int", n>>, and NaN is <<"NaN">>                       *)
(*   - a vehicle type is a TLA+ string, "undefined" when it is undefined   *)
(*   - a subscription is a record [kind, vehicleType, hasRoutes, routes]   *)
(*     with kind "null", "undefined" or "object"                           *)
(***************************************************************************)
EXTENDS Integers, Sequences, FiniteSets, TLC

VARIABLES
    running,       \* the node process is alive (no uncaught exception yet)
    server,        \* part_000:66 `server`: 0 is undefined, n is sockets[n]
    sockets,       \* every socket net.connect has returned, in order
    clients,       \* wss.clients, an array of client ids
    subscription,  \* client.subscription of each client
    readyState,    \* the WebSocket readyState of each client
    outbox,        \* what client.send has delivered to each client
    batchNo,       \* how many batches handleDataBatch has been given
    arg,           \* the argument a DataPoint function is applied to
    ret,           \* its result
    lastEvent      \* where a specification records it: the line the last
                   \* handler has given to winston, and that handler's input

vars == <<running, server, sockets, clients, subscription, readyState,
          outbox, batchNo, arg, ret, lastEvent>>

proxyVars == <<running, server, sockets, clients, subscription, readyState,
               outbox, batchNo>>

(***************************************************************************)
(* Bounds                                                                  *)
(***************************************************************************)
MaxRouteLen == 4
MaxConnects == 2
MaxBatches == 2
MaxRoutes == 2
MaxTypeLen == 2
MaxLines == 3

(***************************************************************************)
(* Strings                                                                 *)
(***************************************************************************)
Undefined == <<"undefined">>

RECURSIVE StringsUpTo(_, _)
StringsUpTo(alphabet, n) ==
    IF n = 0 THEN {<<>>}
    ELSE LET shorter == StringsUpTo(alphabet, n - 1)
         IN  shorter \cup {Append(s, c) : s \in shorter, c \in alphabet}

\* no event has been recorded
NoEvent == <<"", <<>>>>

IsSpace(c) == c \in {" ", "CR", "LF"}

RECURSIVE trimStart(_)
trimStart(s) ==
    IF s # <<>> /\ IsSpace(Head(s)) THEN trimStart(Tail(s)) ELSE s

RECURSIVE trimEnd(_)
trimEnd(s) ==
    IF s # <<>> /\ IsSpace(s[Len(s)])
    THEN trimEnd(SubSeq(s, 1, Len(s) - 1))
    ELSE s

\* String.prototype.trim
trim(s) == trimEnd(trimStart(s))

\* String.prototype.substr(i) with a 0-based i <= length
substr(s, i) == SubSeq(s, i + 1, Len(s))

\* String.prototype.charAt(i), 0-based
charAt(s, i) == s[i + 1]

\* Array.prototype.indexOf (strict equality), 0-based, -1 when absent
indexOf(list, x) ==
    IF \E k \in 1..Len(list) : list[k] = x
    THEN (CHOOSE k \in 1..Len(list) :
              /\ list[k] = x
              /\ \A j \in 1..(k - 1) : list[j] # x) - 1
    ELSE -1

(***************************************************************************)
(* src/datapoint.js                                                        *)
(***************************************************************************)
NaN == <<"NaN">>
Num(n) == <<"int", n>>

\* new DataPoint(properties): the properties the methods read
DataPoint(id, type, route) == [id |-> id, type |-> type, route |-> route]

\* a getVehicleType whose switch has no case 5
getVehicleTypeNoFerry(dp) ==
    CASE dp.type = Num(0) -> "bus"
      [] dp.type = Num(1) -> "tram"
      [] dp.type = Num(2) -> "metro"
      [] dp.type = Num(3) -> "kutsuplus"
      [] dp.type = Num(4) -> "train"
      [] OTHER -> "undefined"

getVehicleType(dp) ==
    CASE dp.type = Num(0) -> "bus"
      [] dp.type = Num(1) -> "tram"
      [] dp.type = Num(2) -> "metro"
      [] dp.type = Num(3) -> "kutsuplus"
      [] dp.type = Num(4) -> "train"
      [] dp.type = Num(5) -> "ferry"
      [] OTHER -> "undefined"

\* the loop of getRoute, from index i on
RECURSIVE getRouteFrom(_, _)
getRouteFrom(route, i) ==
    IF i < Len(route)
    THEN IF charAt(route, i) # "0"
         THEN trim(substr(route, i))
         ELSE getRouteFrom(route, i + 1)
    ELSE <<>>

\* a getRoute whose scan starts at the first character
getRouteFromFirst(dp) ==
    IF dp.route = Undefined THEN <<>> ELSE getRouteFrom(dp.route, 0)

getRoute(dp) ==
    IF dp.route = Undefined THEN <<>> ELSE getRouteFrom(dp.route, 1)

NullSubscription ==
    [kind |-> "null", vehicleType |-> "undefined", hasRoutes |-> FALSE,
     routes |-> <<>>]
UndefinedSubscription ==
    [kind |-> "undefined", vehicleType |-> "undefined", hasRoutes |-> FALSE,
     routes |-> <<>>]
\* {vehicleType: vt, routes: [...]}
Subscription(vt, routes) ==
    [kind |-> "object", vehicleType |-> vt, hasRoutes |-> TRUE,
     routes |-> routes]
\* {vehicleType: vt}, no routes property
SubscriptionNoRoutes(vt) ==
    [kind |-> "object", vehicleType |-> vt, hasRoutes |-> FALSE,
     routes |-> <<>>]

\* a matcher that compares the raw route field
matchesSubscriptionRaw(dp, sub) ==
    IF sub.kind # "object" THEN "TypeError"
    ELSE IF sub.vehicleType = getVehicleType(dp)
    THEN IF ~sub.hasRoutes THEN "TypeError"
         ELSE IF Len(sub.routes) = 0 \/ indexOf(sub.routes, dp.route) > -1
         THEN "true"
         ELSE "false"
    ELSE "false"

\* "true", "false", or "TypeError" when a property of null/undefined is read
matchesSubscription(dp, sub) ==
    IF sub.kind # "object" THEN "TypeError"
    ELSE IF sub.vehicleType = getVehicleType(dp)
    THEN IF ~sub.hasRoutes THEN "TypeError"
         ELSE IF Len(sub.routes) = 0 \/ indexOf(sub.routes, getRoute(dp)) > -1
         THEN "true"
         ELSE "false"
    ELSE "false"

(***************************************************************************)
(* src/unnamed/part_000: decoding a batch                                  *)
(***************************************************************************)
\* String.prototype.split(sep) for a separator of one or two characters:
\* the segments of s, cur being the segment under construction
RECURSIVE splitFrom(_, _, _)
splitFrom(s, sep, cur) ==
    IF s = <<>> THEN <<cur>>
    ELSE IF Len(s) >= Len(sep) /\ SubSeq(s, 1, Len(sep)) = sep
    THEN <<cur>> \o splitFrom(SubSeq(s, Len(sep) + 1, Len(s)), sep, <<>>)
    ELSE splitFrom(Tail(s), sep, Append(cur, Head(s)))

split(s, sep) == splitFrom(s, sep, <<>>)

Digits == {"0", "1", "2", "3", "4", "5", "6", "7", "8", "9"}
DigitValue(c) ==
    CASE c = "0" -> 0 [] c = "1" -> 1 [] c = "2" -> 2 [] c = "3" -> 3
      [] c = "4" -> 4 [] c = "5" -> 5 [] c = "6" -> 6 [] c = "7" -> 7
      [] c = "8" -> 8 [] c = "9" -> 9

\* the value of the leading run of digits of s, acc being the value so far
RECURSIVE parseDigits(_, _)
parseDigits(s, acc) ==
    IF s # <<>> /\ Head(s) \in Digits
    THEN parseDigits(Tail(s), 10 * acc + DigitValue(Head(s)))
    ELSE acc

HexDigits ==
    Digits \cup {"a", "b", "c", "d", "e", "f", "A", "B", "C", "D", "E", "F"}
HexValue(c) ==
    CASE c \in Digits -> DigitValue(c)
      [] c \in {"a", "A"} -> 10 [] c \in {"b", "B"} -> 11
      [] c \in {"c", "C"} -> 12 [] c \in {"d", "D"} -> 13
      [] c \in {"e", "E"} -> 14 [] c \in {"f", "F"} -> 15

\* the value of the leading run of hexadecimal digits of s
RECURSIVE parseHex(_, _)
parseHex(s, acc) ==
    IF s # <<>> /\ Head(s) \in HexDigits
    THEN parseHex(Tail(s), 16 * acc + HexValue(Head(s)))
    ELSE acc

\* parseInt(string): leading whitespace is skipped, a sign is read, then the
\* leading digits, in base 16 after a prefix 0x; NaN when there is no digit,
\* or when the column is undefined
parseInt(col) ==
    IF col = Undefined THEN NaN
    ELSE LET t == trimStart(col)
             neg == t # <<>> /\ Head(t) = "-"
             u == IF t # <<>> /\ Head(t) \in {"-", "+"} THEN Tail(t) ELSE t
             hex == Len(u) >= 2 /\ u[1] = "0" /\ u[2] \in {"x", "X"}
             h == IF hex THEN Tail(Tail(u)) ELSE u
             n == IF hex THEN parseHex(h, 0) ELSE parseDigits(h, 0)
         IN  IF h = <<>> \/ Head(h) \notin (IF hex THEN HexDigits ELSE Digits)
             THEN NaN
             ELSE Num(IF neg THEN 0 - n ELSE n)

\* columns[k], 0-based: undefined past the end of the array
column(columns, k) == IF k < Len(columns) THEN columns[k + 1] ELSE Undefined

\* part_000:116-143: one line of the batch as a DataPoint
decode(line) ==
    LET columns == split(line, <<";">>)
    IN  DataPoint(column(columns, 0), parseInt(column(columns, 2)),
                  column(columns, 12))

(***************************************************************************)
(* src/unnamed/part_000: the broadcast                                     *)
(***************************************************************************)
\* what client.send(JSON.stringify(payload)) delivers; batch and index say
\* which batch, and which line of it, the payload came from
DataPointMessage(dp, b, i) ==
    [kind |-> "dataPoint", dp |-> dp, batch |-> b, index |-> i]
BatchComplete(b) ==
    [kind |-> "batchComplete", dp |-> DataPoint(<<>>, NaN, Undefined),
     batch |-> b, index |-> 0]

\* part_000:232-240, the callback of broadcastDataPoint
interested(dp, c) ==
    IF subscription[c].kind = "null" THEN "false"
    ELSE matchesSubscription(dp, subscription[c])

\* a callback without the null check
interestedNoNullCheck(dp, c) ==
    IF subscription[c].kind = "null" THEN "true"
    ELSE matchesSubscription(dp, subscription[c])

\* part_000:251-257: the loop of broadcast from wss.clients[k] on; message is
\* what is sent, filtered says whether a callback was given. The result is
\* the outboxes and whether the loop ended in an exception: the callback's
\* TypeError, or the 'not opened' error of send on a client that is closing
RECURSIVE broadcastFrom(_, _, _, _)
broadcastFrom(message, filtered, k, box) ==
    IF k > Len(clients) THEN [box |-> box, threw |-> FALSE]
    ELSE LET client == clients[k]
             cb == IF filtered THEN interested(message.dp, client) ELSE "true"
         IN  IF cb = "TypeError" THEN [box |-> box, threw |-> TRUE]
             ELSE IF cb = "false"
             THEN broadcastFrom(message, filtered, k + 1, box)
             ELSE IF readyState[client] # "OPEN"
             THEN [box |-> box, threw |-> TRUE]
             ELSE broadcastFrom(message, filtered, k + 1,
                      [box EXCEPT ![client] = Append(@, message)])

\* a broadcast that stops after the first client served
broadcastFirstOnly(message, filtered, box) ==
    LET r == broadcastFrom(message, filtered, 1, box)
        first == IF clients = <<>> THEN 0 ELSE clients[1]
    IN  [box |-> [c \in DOMAIN box |->
                     IF c = first THEN r.box[c] ELSE box[c]],
         threw |-> r.threw]

broadcast(message, filtered, box) == broadcastFrom(message, filtered, 1, box)

\* a loop that takes the empty row for a data point
RECURSIVE handleLinesFromNoBreak(_, _, _, _)
handleLinesFromNoBreak(dataPoints, i, b, box) ==
    IF i >= Len(dataPoints)
    THEN broadcast(BatchComplete(b), FALSE, box)
    ELSE LET sent == broadcast(
                         DataPointMessage(decode(dataPoints[i + 1]), b, i),
                         TRUE, box)
         IN  IF sent.threw THEN sent
             ELSE handleLinesFromNoBreak(dataPoints, i + 1, b, sent.box)

\* part_000:109-147: the loop of handleDataBatch over dataPoints from index
\* i (0-based) on, then the batchComplete broadcast of line 150
RECURSIVE handleLinesFrom(_, _, _, _)
handleLinesFrom(dataPoints, i, b, box) ==
    IF i >= Len(dataPoints) \/ dataPoints[i + 1] = <<>>
    THEN broadcast(BatchComplete(b), FALSE, box)
    ELSE LET sent == broadcast(
                         DataPointMessage(decode(dataPoints[i + 1]), b, i),
                         TRUE, box)
         IN  IF sent.threw THEN sent
             ELSE handleLinesFrom(dataPoints, i + 1, b, sent.box)

\* a handleDataBatch that announces the end of the batch first
handleDataBatchMarkerFirst(batch, b, box) ==
    LET first == broadcast(BatchComplete(b), FALSE, box)
        dataPoints == split(batch, <<"CR", "LF">>)
        RECURSIVE lines(_, _)
        lines(i, bx) ==
            IF i >= Len(dataPoints) \/ dataPoints[i + 1] = <<>>
            THEN [box |-> bx, threw |-> FALSE]
            ELSE LET sent == broadcast(
                         DataPointMessage(decode(dataPoints[i + 1]), b, i),
                         TRUE, bx)
                 IN  IF sent.threw THEN sent ELSE lines(i + 1, sent.box)
    IN  IF first.threw THEN first ELSE lines(0, first.box)

handleDataBatch(batch, b, box) ==
    handleLinesFrom(split(batch, <<"CR", "LF">>), 0, b, box)

(***************************************************************************)
(* The proxy's state after start-up (part_000:66, 183-187): no socket to   *)
(* the feed, no client.                                                    *)
(***************************************************************************)
\* the WebSocket clients that may connect
ClientIds == {1, 2}
Pending == <<"pending">>

ProxyInit ==
    /\ running = TRUE
    /\ server = 0
    /\ sockets = <<>>
    /\ clients = <<>>
    /\ subscription = [c \in ClientIds |-> NullSubscription]
    /\ readyState = [c \in ClientIds |-> "CLOSED"]
    /\ outbox = [c \in ClientIds |-> <<>>]
    /\ batchNo = 0

(***************************************************************************)
(* An exception no handler catches ends the node process: its sockets and  *)
(* its clients are gone with it. box is what the clients had been sent, b  *)
(* the number of batches received.                                         *)
(***************************************************************************)
ProcessExit(box, b) ==
    /\ running' = FALSE
    /\ server' = 0
    /\ sockets' = <<>>
    /\ clients' = <<>>
    /\ subscription' = [c \in DOMAIN subscription |-> NullSubscription]
    /\ readyState' = [c \in DOMAIN readyState |-> "CLOSED"]
    /\ outbox' = box
    /\ batchNo' = b

(***************************************************************************)
(* src/unnamed/part_000: the connection to the feed                        *)
(***************************************************************************)
API_PORT == 8080
Handshake == <<"&", "username", ";", "password", " onroute:1&">>

\* part_000:155-163: net.connect returns a new socket, which is connecting
connectToHsl(socks) == Append(socks, [state |-> "connecting",
                                      port |-> API_PORT,
                                      written |-> <<>>,
                                      destroyed |-> 0])

\* a disconnectFromHsl that destroys the socket and keeps the handle
disconnectFromHslKeepHandle ==
    IF server # 0
    THEN /\ sockets' = [sockets EXCEPT ![server].state = "destroyed",
                                       ![server].destroyed = @ + 1]
         /\ server' = server
    ELSE UNCHANGED <<server, sockets>>

\* part_000:165-171
disconnectFromHsl ==
    IF server # 0
    THEN /\ sockets' = [sockets EXCEPT ![server].state = "destroyed",
                                       ![server].destroyed = @ + 1]
         /\ server' = 0
    ELSE UNCHANGED <<server, sockets>>

\* part_000:173-180 with a subscription that keeps the routes it had
handleUpdateSubscriptionMerge(client, sub) ==
    /\ IF server = 0
       THEN /\ Len(sockets) < MaxConnects
            /\ sockets' = connectToHsl(sockets)
            /\ server' = Len(sockets')
       ELSE UNCHANGED <<server, sockets>>
    /\ subscription' =
          [subscription EXCEPT ![client] =
              IF sub.kind = "object" /\ @.kind = "object"
              THEN [sub EXCEPT !.routes = subscription[client].routes \o @]
              ELSE sub]

\* part_000:173-180 with an unconditional connect
handleUpdateSubscriptionAlwaysConnect(client, sub) ==
    /\ Len(sockets) < MaxConnects
    /\ sockets' = connectToHsl(sockets)
    /\ server' = Len(sockets')
    /\ subscription' = [subscription EXCEPT ![client] = sub]

\* part_000:173-180
handleUpdateSubscription(client, sub) ==
    /\ IF server = 0
       THEN /\ Len(sockets) < MaxConnects
            /\ sockets' = connectToHsl(sockets)
            /\ server' = Len(sockets')
       ELSE UNCHANGED <<server, sockets>>
    /\ subscription' = [subscription EXCEPT ![client] = sub]

\* part_000:72-80: the 'connect' event of a socket: the handshake is written
onHslConnect(s) ==
    /\ running
    /\ sockets[s].state = "connecting"
    /\ sockets' = [sockets EXCEPT ![s].state = "connected",
                                  ![s].written = Append(@, Handshake)]
    /\ UNCHANGED <<running, server, clients, subscription, readyState,
                   outbox, batchNo, arg, ret, lastEvent>>

KeepAlive == <<"CR">>

\* an onHslData that hands every payload to handleDataBatch
onHslDataNoPing(s, rawData) ==
    /\ running
    /\ sockets[s].state = "connected"
    /\ batchNo < MaxBatches
    /\ LET done == handleDataBatch(rawData, batchNo + 1, outbox)
       IN  IF done.threw
           THEN ProcessExit(done.box, batchNo + 1)
           ELSE /\ outbox' = done.box
                /\ batchNo' = batchNo + 1
                /\ UNCHANGED <<running, server, sockets, clients,
                               subscription, readyState>>
    /\ UNCHANGED <<arg, ret>>

\* part_000:87-95: a 'data' event of a connected socket
onHslData(s, rawData) ==
    /\ running
    /\ sockets[s].state = "connected"
    /\ IF rawData = KeepAlive
       THEN UNCHANGED <<running, server, sockets, clients, subscription,
                       readyState, outbox, batchNo>>
       ELSE /\ batchNo < MaxBatches
            /\ LET done == handleDataBatch(rawData, batchNo + 1, outbox)
               IN  IF done.threw
                   THEN ProcessExit(done.box, batchNo + 1)
                   ELSE /\ outbox' = done.box
                        /\ batchNo' = batchNo + 1
                        /\ UNCHANGED <<running, server, sockets, clients,
                                       subscription, readyState>>
    /\ UNCHANGED <<arg, ret>>

\* The feed closes the connection: the socket ends. part_000:155-163
\* registers no 'end' or 'close' listener, so nothing else changes.
HslEnd(s) ==
    /\ running
    /\ sockets[s].state \in {"connecting", "connected"}
    /\ sockets' = [sockets EXCEPT ![s].state = "closed"]
    /\ UNCHANGED <<running, server, clients, subscription, readyState,
                   outbox, batchNo, arg, ret, lastEvent>>

\* The connection fails: the socket emits 'error'. part_000:155-163
\* registers no 'error' listener, so the event is an uncaught exception.
HslError(s) ==
    /\ running
    /\ sockets[s].state \in {"connecting", "connected"}
    /\ ProcessExit(outbox, batchNo)
    /\ UNCHANGED <<arg, ret, lastEvent>>

(***************************************************************************)
(* src/unnamed/part_000: the WebSocket clients                             *)
(***************************************************************************)
\* part_000:189-193: the server has pushed the client on wss.clients
onConnection(c) ==
    /\ running
    /\ readyState[c] = "CLOSED"
    /\ clients' = Append(clients, c)
    /\ readyState' = [readyState EXCEPT ![c] = "OPEN"]
    /\ subscription' = [subscription EXCEPT ![c] = NullSubscription]
    /\ outbox' = [outbox EXCEPT ![c] = <<>>]
    /\ UNCHANGED <<running, server, sockets, batchNo, arg, ret, lastEvent>>

\* what JSON.parse makes of a client's message: a SyntaxError, null, or an
\* object with its msg and subscription properties
InvalidJson == [json |-> "SyntaxError", msg |-> "undefined",
                subscription |-> UndefinedSubscription]
JsonNull == [json |-> "null", msg |-> "undefined",
             subscription |-> UndefinedSubscription]
Message(msg, sub) == [json |-> "object", msg |-> msg, subscription |-> sub]

\* a message handler whose default branch throws
onMessageUnknownFatal(c, data) ==
    /\ running
    /\ readyState[c] = "OPEN"
    /\ IF data.json # "object" \/ data.msg # "updateSubscription"
       THEN ProcessExit(outbox, batchNo)
       ELSE /\ handleUpdateSubscription(c, data.subscription)
            /\ UNCHANGED <<running, clients, readyState, outbox, batchNo>>
    /\ UNCHANGED <<arg, ret>>

\* part_000:196-208: JSON.parse throws on text that is no JSON, and reading
\* message.msg throws when the text is the JSON null
onMessage(c, data) ==
    /\ running
    /\ readyState[c] = "OPEN"
    /\ IF data.json # "object"
       THEN ProcessExit(outbox, batchNo)
       ELSE IF data.msg = "updateSubscription"
       THEN /\ handleUpdateSubscription(c, data.subscription)
            /\ UNCHANGED <<running, clients, readyState, outbox, batchNo>>
       ELSE UNCHANGED <<running, server, sockets, subscription, clients,
                        readyState, outbox, batchNo>>
    /\ UNCHANGED <<arg, ret>>

\* The closing handshake of a client has begun: it stays on wss.clients
\* until its 'close' event, and send on it throws 'not opened'.
ClientClosing(c) ==
    /\ running
    /\ readyState[c] = "OPEN"
    /\ readyState' = [readyState EXCEPT ![c] = "CLOSING"]
    /\ UNCHANGED <<running, server, sockets, clients, subscription,
                   outbox, batchNo, arg, ret, lastEvent>>

without(list, c) == SelectSeq(list, LAMBDA x : x # c)

\* an onClose that never disconnects from the feed
onCloseNoDisconnect(c) ==
    /\ running
    /\ readyState[c] \in {"OPEN", "CLOSING"}
    /\ clients' = without(clients, c)
    /\ readyState' = [readyState EXCEPT ![c] = "CLOSED"]
    /\ subscription' = [subscription EXCEPT ![c] = NullSubscription]
    /\ outbox' = [outbox EXCEPT ![c] = <<>>]
    /\ UNCHANGED <<server, sockets>>
    /\ UNCHANGED <<running, batchNo, arg, ret, lastEvent>>

\* part_000:213-222: the 'close' event of a client; the server's own
\* listener has removed the client from wss.clients before this one runs
onClose(c) ==
    /\ running
    /\ readyState[c] \in {"OPEN", "CLOSING"}
    /\ clients' = without(clients, c)
    /\ readyState' = [readyState EXCEPT ![c] = "CLOSED"]
    /\ subscription' = [subscription EXCEPT ![c] = NullSubscription]
    /\ outbox' = [outbox EXCEPT ![c] = <<>>]
    /\ IF Len(clients') = 0
       THEN disconnectFromHsl
       ELSE UNCHANGED <<server, sockets>>
    /\ UNCHANGED <<running, batchNo, arg, ret, lastEvent>>

(***************************************************************************)
(* The inputs of the proxy                                                 *)
(***************************************************************************)
\* raw route codes
R1006 == <<"1", "0", "0", "6">>
R1010 == <<"1", "0", "1", "0">>
R1007B == <<"1", "0", "0", "7", "B">>
R1000 == <<"1", "0", "0", "0">>
R1060 == <<"1", "0", "6", "0">>

Semi == <<";">>
CRLF == <<"CR", "LF">>

\* a line of the feed with the 13 columns up to the route
Line(id, type, route) ==
    id \o Semi \o <<"n">> \o Semi \o type \o Semi \o Semi \o Semi \o Semi
       \o Semi \o Semi \o Semi \o Semi \o Semi \o Semi \o route

LineBus6 == Line(<<"a">>, <<"0">>, R1006)
LineTram10 == Line(<<"b">>, <<"1">>, R1010)
LineBus10 == Line(<<"d">>, <<"0">>, R1010)
\* the lines "a;1" and "b;2": two columns, none of them a type or a route
LineA1 == <<"a">> \o Semi \o <<"1">>
LineB2 == <<"b">> \o Semi \o <<"2">>

\* a keep-alive, and a batch of a bus, a tram and another bus
BatchOfThree == LineBus6 \o CRLF \o LineTram10 \o CRLF \o LineBus10 \o CRLF
Payloads == {KeepAlive, BatchOfThree}

SubscriptionInputs ==
    { Subscription("bus", <<>>),
      Subscription("tram", <<<<"1", "0">>>>),
      UndefinedSubscription }

Messages ==
    {Message("updateSubscription", sub) : sub \in SubscriptionInputs}
        \cup {Message("ping", UndefinedSubscription), InvalidJson}

Init ==
    /\ ProxyInit
    /\ arg = <<>>
    /\ ret = Pending
    /\ lastEvent = NoEvent

\* the handlers in any order; what the message handler and the data
\* handler log is not recorded
Next ==
    \/ \E c \in ClientIds : onConnection(c)
    \/ \E c \in ClientIds, data \in Messages :
           onMessage(c, data) /\ UNCHANGED lastEvent
    \/ \E c \in ClientIds : ClientClosing(c)
    \/ \E c \in ClientIds : onClose(c)
    \/ \E s \in DOMAIN sockets : onHslConnect(s)
    \/ \E s \in DOMAIN sockets, rawData \in Payloads :
           onHslData(s, rawData) /\ UNCHANGED lastEvent
    \/ \E s \in DOMAIN sockets : HslEnd(s)
    \/ \E s \in DOMAIN sockets : HslError(s)

Spec == Init /\ [][Next]_vars

(***************************************************************************)
(* getRoute on every route string up to MaxRouteLen characters, on the     *)
(* routes of the documentation, and on a data point without a route.       *)
(***************************************************************************)
RouteAlphabet == {"0", "1", "6", " "}
RouteInputs ==
    StringsUpTo(RouteAlphabet, MaxRouteLen) \cup {R1007B, Undefined}

InitRoute ==
    /\ ProxyInit
    /\ arg \in RouteInputs
    /\ ret = Pending
    /\ lastEvent = NoEvent

CallGetRoute ==
    /\ ret = Pending
    /\ ret' = getRoute(DataPoint(<<>>, NaN, arg))
    /\ UNCHANGED <<proxyVars, arg, lastEvent>>

NextRoute == CallGetRoute

SpecRoute == InitRoute /\ [][NextRoute]_vars

(***************************************************************************)
(* matchesSubscription on data points of every type code and subscriptions *)
(* of every shape.                                                         *)
(***************************************************************************)
TypeInputs == {Num(n) : n \in -1..6} \cup {NaN}
MatchRoutes == {Undefined, <<>>, <<"6">>, R1006, R1010, R1060}
MatchPoints == {DataPoint(<<>>, t, r) : t \in TypeInputs, r \in MatchRoutes}

RouteLists ==
    UNION {[1..n -> {<<"6">>, <<"1", "0">>, <<"6", "0">>, R1006}] :
               n \in 0..MaxRoutes}
VehicleTypeInputs == {"bus", "tram", "ferry", "car", "undefined"}
MatchSubscriptions ==
    {Subscription(vt, rs) : vt \in VehicleTypeInputs, rs \in RouteLists}
        \cup {SubscriptionNoRoutes(vt) : vt \in VehicleTypeInputs}
        \cup {NullSubscription, UndefinedSubscription}

InitMatch ==
    /\ ProxyInit
    /\ arg \in [dp : MatchPoints, sub : MatchSubscriptions]
    /\ ret = "pending"
    /\ lastEvent = NoEvent

CallMatchesSubscription ==
    /\ ret = "pending"
    /\ ret' = matchesSubscription(arg.dp, arg.sub)
    /\ UNCHANGED <<proxyVars, arg, lastEvent>>

NextMatch == CallMatchesSubscription

SpecMatch == InitMatch /\ [][NextMatch]_vars

(***************************************************************************)
(* The handlers of a proxy that is connected to the feed and has two       *)
(* clients, each with any subscription and open or closing; the input and  *)
(* the log line of the last handler are recorded. One specification gives  *)
(* it payloads of the feed, the other messages of the clients.             *)
(***************************************************************************)
BatchLines == {LineBus6, LineA1, LineB2, <<>>}
LineSeqs == StringsUpTo(BatchLines, MaxLines)

\* the batch of the lines ls, each followed by "\r\n"
RECURSIVE Terminated(_)
Terminated(ls) ==
    IF ls = <<>> THEN <<>> ELSE Head(ls) \o CRLF \o Terminated(Tail(ls))

FeedInputs ==
    {[data |-> Terminated(ls), lines |-> ls] : ls \in LineSeqs}
        \cup {[data |-> KeepAlive, lines |-> <<>>]}

StoredSubscriptions ==
    { Subscription("bus", <<>>),
      Subscription("tram", <<<<"1", "0">>>>),
      Subscription("undefined", <<>>),
      UndefinedSubscription }

UnknownMessages ==
    { Message("ping", UndefinedSubscription),
      Message("undefined", Subscription("bus", <<>>)) }

ClientMessages ==
    {Message("updateSubscription", sub) : sub \in StoredSubscriptions}
        \cup UnknownMessages \cup {InvalidJson}

\* a state the proxy is in after both clients have connected, a client has
\* subscribed, the feed has accepted the connection and MaxBatches - 1
\* batches have passed before the clients connected
InitConnected ==
    /\ running = TRUE
    /\ server = 1
    /\ sockets = <<[state |-> "connected", port |-> API_PORT,
                    written |-> <<Handshake>>, destroyed |-> 0]>>
    /\ clients \in {<<1, 2>>, <<2, 1>>}
    /\ subscription \in
          [ClientIds -> StoredSubscriptions \cup {NullSubscription}]
    /\ readyState \in [ClientIds -> {"OPEN", "CLOSING"}]
    /\ outbox = [c \in ClientIds |-> <<>>]
    /\ batchNo = MaxBatches - 1
    /\ arg = <<>>
    /\ ret = Pending
    /\ lastEvent = NoEvent

\* part_000:87-95 and 152: onHslData, and what it has logged
DataEvent(s, input) ==
    /\ onHslData(s, input.data)
    /\ lastEvent' =
          << IF input.data = KeepAlive THEN "Received PING from server"
             ELSE IF running' THEN "Received data points in the last batch"
             ELSE "",
             input >>

\* part_000:196-208 and 178: the message handler, and what it has logged
MessageEvent(c, data) ==
    /\ onMessage(c, data)
    /\ lastEvent' =
          << IF data.json # "object" THEN ""
             ELSE IF data.msg = "updateSubscription"
             THEN "Got client subscription"
             ELSE "Unhandled message",
             data >>

NextBatches ==
    \E s \in DOMAIN sockets, input \in FeedInputs : DataEvent(s, input)

SpecBatches == InitConnected /\ [][NextBatches]_vars

NextMessages ==
    \E c \in ClientIds, data \in ClientMessages : MessageEvent(c, data)

SpecMessages == InitConnected /\ [][NextMessages]_vars

(***************************************************************************)
(* getVehicleType applied to the data point decoded from a line whose      *)
(* third column is a bounded string, or which has no third column          *)
(***************************************************************************)
TypeAlphabet == {"0", "1", "2", "3", "4", "5", "6", "-", "x", " "}
TypeColumns == StringsUpTo(TypeAlphabet, MaxTypeLen) \cup {Undefined}

\* the line "i;n;<col>", and "i;n" when the type column is missing
TypeLine(col) ==
    <<"i">> \o Semi \o <<"n">>
        \o (IF col = Undefined THEN <<>> ELSE Semi \o col)

InitType ==
    /\ ProxyInit
    /\ arg \in TypeColumns
    /\ ret = "pending"
    /\ lastEvent = NoEvent

CallGetVehicleType ==
    /\ ret = "pending"
    /\ ret' = getVehicleType(decode(TypeLine(arg)))
    /\ UNCHANGED <<proxyVars, arg, lastEvent>>

NextType == CallGetVehicleType

SpecType == InitType /\ [][NextType]_vars

(***************************************************************************)
(* Claims about the connection to the feed                                 *)
(***************************************************************************)
LiveSockets ==
    {s \in DOMAIN sockets : sockets[s].state \in {"connecting", "connected"}}

UpdateMessages ==
    {Message("updateSubscription", sub) : sub \in SubscriptionInputs}

\* C1: in every reachable state, if no WebSocket client is connected then no
\* connection to the feed exists: the `server` handle is undefined and no
\* socket is connecting or connected.
ThmC1_NoClientsNoUpstream ==
    clients = <<>> => (server = 0 /\ LiveSockets = {})

\* a connection had been opened, and the last client has left
WitC1_LastClientLeft ==
    /\ running
    /\ clients = <<>>
    /\ Len(sockets) = 1
    /\ sockets[1].state = "destroyed"

\* C2: from Disconnected, an updateSubscription opens exactly one connection
\* to the feed; an updateSubscription received while the handle is set opens
\* none; at most one connection to the feed is open at any time.
ThmC2_AtMostOneUpstream ==
    [][/\ Cardinality(LiveSockets') <= 1
       /\ \A c \in ClientIds, data \in UpdateMessages :
             onMessage(c, data) =>
                 IF server = 0
                 THEN /\ Len(sockets') = Len(sockets) + 1
                      /\ server' = Len(sockets')
                      /\ LiveSockets' = {server'}
                 ELSE /\ sockets' = sockets
                      /\ server' = server]_vars

\* both clients have subscribed, and one connection has been opened
WitC2_TwoSubscribersOneSocket ==
    /\ running
    /\ Len(clients) = 2
    /\ \A c \in ClientIds : subscription[c].kind # "null"
    /\ Len(sockets) = 1
    /\ LiveSockets = {1}

\* C3: when the last client disconnects while the handle is set, the socket
\* is destroyed, exactly once, and the handle is cleared; the next
\* updateSubscription opens a fresh connection; no socket is destroyed twice.
ThmC3_DisconnectOnLastClose ==
    [][/\ (running' /\ clients # <<>> /\ clients' = <<>> /\ server # 0) =>
             /\ server' = 0
             /\ sockets'[server].state = "destroyed"
             /\ sockets'[server].destroyed = sockets[server].destroyed + 1
             /\ \A s \in DOMAIN sockets \ {server} : sockets'[s] = sockets[s]
       /\ \A s \in DOMAIN sockets' : sockets'[s].destroyed <= 1
       /\ \A c \in ClientIds, data \in UpdateMessages :
             (onMessage(c, data) /\ server = 0) =>
                 /\ server' = Len(sockets) + 1
                 /\ sockets'[server'].state = "connecting"
                 /\ sockets'[server'].destroyed = 0]_vars

\* the connection of the first cycle is destroyed, that of the second is open
WitC3_SecondCycle ==
    /\ running
    /\ Len(sockets) >= 2
    /\ sockets[1].state = "destroyed"
    /\ sockets[1].destroyed = 1
    /\ server = 2
    /\ sockets[2].state = "connected"

\* C4: when the feed closes the connection while clients are connected, the
\* connection state becomes Disconnected (the handle is cleared), so that a
\* later updateSubscription opens a new connection.
CexC4_UpstreamCloseDisconnects ==
    \A s \in DOMAIN sockets : sockets[s].state = "closed" => server # s

(***************************************************************************)
(* Claims about the broadcast                                              *)
(***************************************************************************)
\* the messages of kind k and batch b in a client's outbox
Received(c, k, b) ==
    {i \in 1..Len(outbox[c]) : outbox[c][i].kind = k /\ outbox[c][i].batch = b}

\* what a step has appended to the outbox of c
Appended(c) == SubSeq(outbox'[c], Len(outbox[c]) + 1, Len(outbox'[c]))

Batches == Payloads \ {KeepAlive}

\* C5: for every payload of the feed that is no keep-alive, exactly one
\* batchComplete is sent to every client connected at that moment, whatever
\* its subscription.
CexC5_MarkerToEveryClient ==
    [][\A s \in DOMAIN sockets, rawData \in Batches :
          onHslData(s, rawData) =>
              \A k \in 1..Len(clients) :
                  LET new == Appended(clients[k])
                  IN  Cardinality({i \in 1..Len(new) :
                          new[i].kind = "batchComplete"}) = 1]_vars

\* C6: the data points a client receives from a batch are in the order of
\* their lines in the batch, and the batchComplete of a batch is the last
\* message of that batch: nothing of a batch follows its marker or precedes
\* the marker of an earlier batch.
ThmC6_DeliveryOrder ==
    \A c \in ClientIds :
        \A i, j \in 1..Len(outbox[c]) :
            i < j =>
                LET m == outbox[c][i]
                    n == outbox[c][j]
                IN  /\ m.batch <= n.batch
                    /\ m.batch = n.batch =>
                          /\ m.kind = "dataPoint"
                          /\ n.kind = "dataPoint" => m.index < n.index

\* a client has received two data points and the marker of each of two batches
WitC6_TwoBatchesInOrder ==
    \E c \in ClientIds :
        /\ Len(outbox[c]) = 6
        /\ outbox[c][1].kind = "dataPoint" /\ outbox[c][1].index = 0
        /\ outbox[c][2].kind = "dataPoint" /\ outbox[c][2].index = 2
        /\ outbox[c][3].kind = "batchComplete" /\ outbox[c][3].batch = 1
        /\ outbox[c][4].kind = "dataPoint" /\ outbox[c][4].batch = 2
        /\ outbox[c][6].kind = "batchComplete" /\ outbox[c][6].batch = 2

\* C7: each decoded data point is sent to a connected client if and only if
\* the client's subscription is not null and the matcher returns true for it.
CexC7_SentIffMatches ==
    [][\A s \in DOMAIN sockets, rawData \in Batches :
          onHslData(s, rawData) =>
              LET dataPoints == split(rawData, CRLF)
              IN  \A k \in 1..Len(clients), i \in 0..(Len(dataPoints) - 2) :
                      LET c == clients[k]
                          new == Appended(c)
                          dp == decode(dataPoints[i + 1])
                      IN  (\E n \in 1..Len(new) :
                               /\ new[n].kind = "dataPoint"
                               /\ new[n].index = i
                               /\ new[n].dp = dp)
                          <=> (/\ subscription[c].kind # "null"
                               /\ matchesSubscription(dp, subscription[c])
                                      = "true")]_vars

(***************************************************************************)
(* Claims about the batch handler                                          *)
(***************************************************************************)
\* a step in which handleDataBatch has been given a batch
BatchStep == batchNo' = batchNo + 1

\* the lines of the batch that the step has been given
StepLines == lastEvent'[2].lines

\* the records recs broadcast one after the other, from index i (0-based)
\* on, and then the batchComplete: the outboxes, and whether a broadcast
\* has ended in an exception
RECURSIVE RecordsThenMarker(_, _, _, _)
RecordsThenMarker(recs, i, b, box) ==
    IF i >= Len(recs) THEN broadcast(BatchComplete(b), FALSE, box)
    ELSE LET sent == broadcast(DataPointMessage(decode(recs[i + 1]), b, i),
                               TRUE, box)
         IN  IF sent.threw THEN sent
             ELSE RecordsThenMarker(recs, i + 1, b, sent.box)

\* how many batchComplete messages the sequence new holds
Markers(new) ==
    Cardinality({n \in 1..Len(new) : new[n].kind = "batchComplete"})

\* the indices of the data points the sequence new holds
Indices(new) ==
    {new[n].index : n \in {m \in 1..Len(new) : new[m].kind = "dataPoint"}}

\* C12: a batch of N non-empty records, each followed by "\r\n", is handled
\* as exactly those N records in their order, followed by the batchComplete:
\* the empty segment after the last terminator is never decoded or
\* broadcast, so no client receives a data point of index N or more, and
\* "a;1\r\nb;2\r\n" gives a client that matches both exactly two data points.
ThmC12_TerminatedBatchDecodesN ==
    [][(BatchStep /\ \A i \in 1..Len(StepLines) : StepLines[i] # <<>>) =>
          LET want == RecordsThenMarker(StepLines, 0, batchNo + 1, outbox)
          IN  /\ outbox' = want.box
              /\ running' = ~want.threw
              /\ \A c \in ClientIds :
                    /\ \A i \in Indices(Appended(c)) : i < Len(StepLines)
                    /\ (/\ running'
                        /\ StepLines = <<LineA1, LineB2>>
                        /\ subscription[c] = Subscription("undefined", <<>>))
                          => /\ Len(Appended(c)) = 3
                             /\ Indices(Appended(c)) = {0, 1}
                             /\ Markers(Appended(c)) = 1]_vars

\* "a;1\r\nb;2\r\n" has been handled, and a client whose subscription
\* matches both records has received two data points and the marker
WitC12_TwoRecordsTwoDataPoints ==
    /\ running
    /\ lastEvent[1] = "Received data points in the last batch"
    /\ lastEvent[2].lines = <<LineA1, LineB2>>
    /\ \E c \in ClientIds :
          /\ subscription[c] = Subscription("undefined", <<>>)
          /\ Len(outbox[c]) = 3
          /\ outbox[c][1].dp.id = <<"a">> /\ outbox[c][1].index = 0
          /\ outbox[c][2].dp.id = <<"b">> /\ outbox[c][2].index = 1
          /\ outbox[c][3].kind = "batchComplete"

\* C17: a payload that is exactly "\r" is a keep-alive: nothing is decoded,
\* no data point and no batchComplete is sent, and the clients, their
\* subscriptions and the connection to the feed are as before; every other
\* payload is given to handleDataBatch once, which sends a client at most
\* one batchComplete, and exactly one to each when it returns.
ThmC17_KeepAliveIsNoBatch ==
    [][IF lastEvent'[2].data = KeepAlive
       THEN /\ UNCHANGED proxyVars
            /\ lastEvent'[1] = "Received PING from server"
       ELSE /\ BatchStep
            /\ \A c \in ClientIds : Markers(Appended(c)) <= 1
            /\ running' =>
                  /\ lastEvent'[1] = "Received data points in the last batch"
                  /\ \A k \in 1..Len(clients) :
                        Markers(Appended(clients[k])) = 1]_vars

\* a keep-alive has come to a proxy with a subscribed, open client before
\* any batch: nothing has been sent, the feed is still connected
WitC17_KeepAliveLogged ==
    /\ running
    /\ lastEvent[1] = "Received PING from server"
    /\ lastEvent[2].data = <<"CR">>
    /\ server = 1
    /\ Len(clients) = 2
    /\ \A c \in ClientIds : outbox[c] = <<>>
    /\ \E c \in ClientIds :
          /\ readyState[c] = "OPEN"
          /\ subscription[c] = Subscription("bus", <<>>)

\* the lines that are no record of the feed: they have neither a type nor a
\* route column
MalformedLines == {LineA1, LineB2}

\* C13: a malformed record of a batch affects only itself: what every client
\* receives of the other records of the batch, and of the batchComplete, is
\* what it receives when the batch is sent without the malformed record.
CexC13_MalformedRecordAffectsOnlyItself ==
    [][(BatchStep /\ \A i \in 1..Len(StepLines) : StepLines[i] # <<>>) =>
          \A k \in 1..Len(StepLines) :
              StepLines[k] \in MalformedLines =>
                  LET rest == SubSeq(StepLines, 1, k - 1)
                                  \o SubSeq(StepLines, k + 1, Len(StepLines))
                      want == handleDataBatch(Terminated(rest), batchNo + 1,
                                              outbox)
                  IN  \A c \in ClientIds :
                          LET new == Appended(c)
                              exp == SubSeq(want.box[c], Len(outbox[c]) + 1,
                                            Len(want.box[c]))
                          IN  /\ Markers(new) = Markers(exp)
                              /\ \A i \in 0..(Len(StepLines) - 1) :
                                    i # k - 1 =>
                                        (i \in Indices(new) <=>
                                            (IF i < k - 1 THEN i ELSE i - 1)
                                                \in Indices(exp))]_vars

\* the 0-based index of the first empty line of ls, Len(ls) if it has none
RECURSIVE FirstEmpty(_)
FirstEmpty(ls) ==
    IF ls = <<>> \/ Head(ls) = <<>> THEN 0 ELSE 1 + FirstEmpty(Tail(ls))

\* C20: when a batch has an empty line that other lines follow, the records
\* are processed up to that line only: no client receives a data point of a
\* line that follows it, and every client that is open receives the
\* batchComplete.
CexC20_StopsAtFirstEmptyLine ==
    [][(BatchStep /\ FirstEmpty(StepLines) + 1 < Len(StepLines)) =>
          \A k \in 1..Len(clients) :
              LET new == Appended(clients[k])
              IN  /\ \A i \in Indices(new) : i < FirstEmpty(StepLines)
                  /\ readyState[clients[k]] = "OPEN" => Markers(new) = 1]_vars

(***************************************************************************)
(* Claims about failures                                                   *)
(***************************************************************************)
\* the records of BatchOfThree
RecordsOfThree == <<LineBus6, LineTram10, LineBus10>>

\* the step has brought client c the batchComplete and, of the records
\* recs, exactly those its subscription matches
ServedInFull(c, recs) ==
    /\ Markers(Appended(c)) = 1
    /\ \A i \in 0..(Len(recs) - 1) :
          i \in Indices(Appended(c))
              <=> interested(decode(recs[i + 1]), c) = "true"

\* C15: a message of a client whose msg is not 'updateSubscription' is
\* ignored: the process lives on, the sender stays connected and open, no
\* client's subscription changes, and no connection to the feed is opened
\* or destroyed; nothing is sent to any client.
ThmC15_UnknownMessageIgnored ==
    [][\A c \in ClientIds, data \in UnknownMessages :
          onMessage(c, data) =>
              /\ running'
              /\ readyState'[c] = "OPEN"
              /\ \E k \in 1..Len(clients') : clients'[k] = c
              /\ UNCHANGED <<clients, readyState, subscription, server,
                             sockets, outbox, batchNo>>]_vars

\* the handler has logged an unhandled message of a subscribed client, which
\* is open and subscribed as before, the feed still connected
WitC15_PingIgnored ==
    /\ running
    /\ lastEvent[1] = "Unhandled message"
    /\ server = 1
    /\ sockets[1].state = "connected"
    /\ \E c \in ClientIds :
          /\ readyState[c] = "OPEN"
          /\ subscription[c] = Subscription("bus", <<>>)

\* C16: a message of a client that is no JSON text is dropped: the handler
\* ends without an uncaught exception, the sender stays connected, and the
\* subscriptions and the connection to the feed are as before.
CexC16_UnparsableMessageDropped ==
    [][\A c \in ClientIds :
          onMessage(c, InvalidJson) =>
              /\ running'
              /\ readyState'[c] = "OPEN"
              /\ UNCHANGED <<clients, subscription, server, sockets>>]_vars

\* C14: a send that fails because the client is closing is confined to that
\* client: when a batch arrives while every stored subscription is null or
\* well-formed, every open client receives the data points it matches and
\* the batchComplete, whatever the ready state of the other clients.
CexC14_SendFailureConfined ==
    [][\A s \in DOMAIN sockets :
          (/\ onHslData(s, BatchOfThree)
           /\ \A k \in 1..Len(clients) :
                  subscription[clients[k]].kind # "undefined") =>
              \A k \in 1..Len(clients) :
                  readyState[clients[k]] = "OPEN" =>
                      ServedInFull(clients[k], RecordsOfThree)]_vars

\* C19: an updateSubscription replaces the subscription of its sender by
\* the subscription of the message, whatever the sender had before, and
\* changes no other client's subscription; what a batch brings a client is
\* decided by the subscription it holds then: every data point it receives
\* matches that subscription, and when the handler returns it has received
\* every record that matches it.
ThmC19_SubscriptionReplaced ==
    [][/\ \A c \in ClientIds, data \in UpdateMessages :
             onMessage(c, data) =>
                 /\ subscription'[c] = data.subscription
                 /\ \A d \in ClientIds \ {c} :
                       subscription'[d] = subscription[d]
       /\ \A s \in DOMAIN sockets :
             (BatchStep /\ onHslData(s, BatchOfThree)) =>
                 \A k \in 1..Len(clients) :
                     LET c == clients[k]
                         new == Appended(c)
                     IN  /\ \A n \in 1..Len(new) :
                               new[n].kind = "dataPoint" =>
                                   LET rec == RecordsOfThree[new[n].index + 1]
                                   IN  /\ new[n].dp = decode(rec)
                                       /\ matchesSubscription(new[n].dp,
                                              subscription[c]) = "true"
                         /\ running' => ServedInFull(c, RecordsOfThree)]_vars

\* a client subscribed to bus has received the two bus records of the first
\* batch, has then subscribed to tram route 10, and has received only the
\* tram record of the second batch
WitC19_BusThenTram ==
    \E c \in ClientIds :
        /\ subscription[c] = Subscription("tram", <<<<"1", "0">>>>)
        /\ Len(outbox[c]) = 5
        /\ outbox[c][1].batch = 1 /\ outbox[c][1].dp.id = <<"a">>
        /\ outbox[c][2].batch = 1 /\ outbox[c][2].dp.id = <<"d">>
        /\ outbox[c][3].kind = "batchComplete"
        /\ outbox[c][4].batch = 2 /\ outbox[c][4].dp.id = <<"b">>
        /\ outbox[c][5].kind = "batchComplete" /\ outbox[c][5].batch = 2

\* C18: a stored subscription that makes the matcher fail (the subscription
\* of an updateSubscription without a subscription object) does not halt
\* the others: when a batch arrives while every client is open, every client
\* whose subscription is null or well-formed receives the data points it
\* matches, and every client receives the batchComplete.
CexC18_BadSubscriptionConfined ==
    [][\A s \in DOMAIN sockets :
          (/\ onHslData(s, BatchOfThree)
           /\ \A k \in 1..Len(clients) :
                  readyState[clients[k]] = "OPEN") =>
              \A k \in 1..Len(clients) :
                  /\ Markers(Appended(clients[k])) = 1
                  /\ subscription[clients[k]].kind # "undefined" =>
                        ServedInFull(clients[k], RecordsOfThree)]_vars

(***************************************************************************)
(* Claims about src/datapoint.js                                           *)
(***************************************************************************)
\* out is s without its leading and trailing whitespace
IsTrimOf(out, s) ==
    /\ out = <<>> \/ (~IsSpace(out[1]) /\ ~IsSpace(out[Len(out)]))
    /\ \E a \in 0..Len(s) :
          /\ a + Len(out) <= Len(s)
          /\ SubSeq(s, a + 1, a + Len(out)) = out
          /\ \A i \in 1..a : IsSpace(s[i])
          /\ \A i \in (a + Len(out) + 1)..Len(s) : IsSpace(s[i])

\* the normalized route of the raw route r, as section 4.1 states it
IsNormalizedRoute(out, r) ==
    IF r = Undefined \/ Len(r) <= 1 \/ \A i \in 2..Len(r) : r[i] = "0"
    THEN out = <<>>
    ELSE LET k == CHOOSE k \in 2..Len(r) :
                      /\ r[k] # "0"
                      /\ \A j \in 2..(k - 1) : r[j] = "0"
         IN  IsTrimOf(out, SubSeq(r, k, Len(r)))

\* C10: route normalization is total: for every raw route, getRoute returns
\* the substring from the first non-'0' character at index >= 1, trimmed,
\* and the empty string when the route is absent, has length <= 1 or is all
\* '0' after index 0; "1006" gives "6", "1010" gives "10", "1007B" gives
\* "7B", "1000" gives "" and "" gives "".
ThmC10_RouteNormalization ==
    ret # Pending =>
        /\ IsNormalizedRoute(ret, arg)
        /\ arg = R1006 => ret = <<"6">>
        /\ arg = R1010 => ret = <<"1", "0">>
        /\ arg = R1007B => ret = <<"7", "B">>
        /\ arg = R1000 => ret = <<>>
        /\ arg = <<>> => ret = <<>>
        /\ arg = Undefined => ret = <<>>

WitC10_Route1007B == arg = R1007B /\ ret = <<"7", "B">>

\* C9: for P and S of equal vehicle type, matches(P, S) is true if S.routes
\* is empty, and otherwise exactly when P's normalized route is an element of
\* S.routes; routes ["6"] matches raw route "1006" and not raw route "1060".
ThmC9_RouteMatching ==
    LET dp == arg.dp
        sub == arg.sub
    IN  (/\ ret # "pending"
         /\ sub.kind = "object"
         /\ sub.hasRoutes
         /\ sub.vehicleType = getVehicleType(dp)) =>
            /\ ret \in {"true", "false"}
            /\ sub.routes = <<>> => ret = "true"
            /\ sub.routes # <<>> =>
                  (ret = "true" <=>
                      \E k \in 1..Len(sub.routes) :
                          IsNormalizedRoute(sub.routes[k], dp.route))
            /\ (sub.routes = <<<<"6">>>> /\ dp.route = R1006) => ret = "true"
            /\ (sub.routes = <<<<"6">>>> /\ dp.route = R1060) => ret = "false"

WitC9_Route6Matches1006 ==
    /\ ret = "true"
    /\ arg.sub.routes = <<<<"6">>>>
    /\ arg.dp.route = R1006
    /\ arg.sub.vehicleType = "tram"

\* C8: matches(P, S) is false whenever P's vehicle type differs from
\* S.vehicleType, and a data point of unknown vehicle type never matches a
\* subscription whose vehicleType is unset, even when S.routes is empty.
CexC8_UnknownTypeNeverMatches ==
    LET dp == arg.dp
        sub == arg.sub
    IN  (ret # "pending" /\ sub.kind = "object" /\ sub.hasRoutes) =>
            /\ sub.vehicleType # getVehicleType(dp) => ret = "false"
            /\ (getVehicleType(dp) = "undefined"
                    /\ sub.vehicleType = "undefined") => ret # "true"

\* C11: the vehicle type is a total function of the decoded type code: 0 is
\* bus, 1 tram, 2 metro, 3 kutsuplus, 4 train and 5 ferry; every other
\* integer, and every type column that is no number or is missing, gives the
\* unknown type, and no input raises an error.
ThmC11_VehicleTypeTotal ==
    ret # "pending" =>
        LET code == parseInt(arg)
            names == <<"bus", "tram", "metro", "kutsuplus", "train", "ferry">>
        IN  /\ ret \in {names[i] : i \in 1..6} \cup {"undefined"}
            /\ code = NaN => ret = "undefined"
            /\ code # NaN =>
                  ret = IF code[2] \in 0..5 THEN names[code[2] + 1]
                        ELSE "undefined"
            /\ arg = <<"0">> => ret = "bus"
            /\ arg = <<"1">> => ret = "tram"
            /\ arg = <<"2">> => ret = "metro"
            /\ arg = <<"3">> => ret = "kutsuplus"
            /\ arg = <<"4">> => ret = "train"
            /\ arg = <<"5">> => ret = "ferry"
            /\ arg \in {<<"6">>, <<"-", "1">>, <<"x">>, <<>>, Undefined} =>
                  ret = "undefined"

\* the type column "5" has been decoded and has given ferry
WitC11_Code5IsFerry ==
    /\ ret = "ferry"
    /\ arg = <<"5">>

====
